---- MODULE Spec2Model ----
(***************************************************************************)
(* Model of the Master service of db/src/master.rs: the tenant registry    *)
(* built by Master::new, the Get and Invoke handlers, and the opcode       *)
(* switch of Service::dispatch, one request/response buffer pair at a      *)
(* time.                                                                   *)
(***************************************************************************)
EXTENDS Integers, Sequences, FiniteSets, TLC

(***************************************************************************)
(* Bounds of the model.                                                    *)
(***************************************************************************)
\* Tenant ids carried by requests range over 0..MaxTenant.
MaxTenant == 2
\* Table ids carried by requests range over 0..MaxTable.
MaxTable == 2
\* Request payloads are up to MaxPad bytes longer than the provisioned key.
MaxPad == 1
\* Response buffers have up to ValueLen + MaxSlack bytes of payload room.
MaxSlack == 1

(***************************************************************************)
(* Program constants.                                                      *)
(***************************************************************************)
KeyLen == 30
KeyByte == 1
ValueLen == 100
ValueByte == 91
U16Max == 65535

Fill(n, b) == [i \in 1..n |-> b]

\* Option<T>
None == [some |-> FALSE]
Some(v) == [some |-> TRUE, val |-> v]

\* the bytes of "get"
ExtNameGet == <<103, 101, 116>>

(***************************************************************************)
(* Storage table and tenant registry.                                      *)
(***************************************************************************)
EmptyMap == [x \in {} |-> 0]

Table_default == EmptyMap

\* put overwrites an existing value for the same key
Table_put(table, key, value) == (key :> value) @@ table

Table_get(table, key) ==
    IF key \in DOMAIN table THEN Some(table[key]) ELSE None

HashMap_get(map, k) ==
    IF k \in DOMAIN map THEN Some(map[k]) ELSE None

HashMap_insert(map, k, v) == (k :> v) @@ map

User_new(id) == [id |-> id, tables |-> EmptyMap]

create_table_mut(self, table_id) ==
    LET table == Table_default
        buf   == Fill(KeyLen, KeyByte) \o Fill(ValueLen, ValueByte)
        key   == SubSeq(buf, 1, KeyLen + 1)
        value == SubSeq(buf, KeyLen + 2, Len(buf))
    IN  [self EXCEPT !.tables =
            HashMap_insert(self.tables, table_id, Table_put(table, key, value))]

create_table(self, table_id) ==
    LET table == Table_default
        buf   == Fill(KeyLen, KeyByte) \o Fill(ValueLen, ValueByte)
        key   == SubSeq(buf, 1, KeyLen)
        value == SubSeq(buf, KeyLen + 1, Len(buf))
    IN  [self EXCEPT !.tables =
            HashMap_insert(self.tables, table_id, Table_put(table, key, value))]

\* ExtensionManager::load binds (tenant, name) to a callable unit
ExtensionManager_new == {}
ExtensionManager_load(exts, tenant, name) == exts \cup {<<tenant, name>>}

Master_new ==
    LET user == create_table(User_new(1), 1)
    IN  [users      |-> HashMap_insert(EmptyMap, user.id, user),
         extensions |-> ExtensionManager_load(ExtensionManager_new, 1, ExtNameGet)]

(***************************************************************************)
(* Wire buffers.                                                           *)
(***************************************************************************)
NoHeader == [present |-> FALSE, kind |-> "none", status |-> "none",
             value_length |-> 0]

GetResponse_new ==
    [present |-> TRUE, kind |-> "GetResponse", status |-> "StatusOk",
     value_length |-> 0]

InvokeResponse_new ==
    [present |-> TRUE, kind |-> "InvokeResponse", status |-> "StatusOk",
     value_length |-> 0]

get_payload(packet) == packet.payload

\* <[u8]>::split_at panics when mid > len; the halves below are what it
\* returns when it does not
split_at_panics(bytes, mid) == mid > Len(bytes)

split_at(bytes, mid) ==
    LET m == IF split_at_panics(bytes, mid) THEN Len(bytes) ELSE mid
    IN  <<SubSeq(bytes, 1, m), SubSeq(bytes, m + 1, Len(bytes))>>

parse_rpc_opcode(packet) == packet.hdr.opcode

parse_header(packet, kind) == [packet EXCEPT !.layer = kind]

\* Err when the buffer has no room for the header
push_header(packet, header) ==
    IF packet.header_room
    THEN Some([packet EXCEPT !.layer = header.kind, !.header = header])
    ELSE None

\* all-or-nothing append of the first size bytes of data
add_to_payload_tail(packet, size, data) ==
    IF size <= packet.payload_room
    THEN Some([packet EXCEPT !.payload = packet.payload \o SubSeq(data, 1, size),
                             !.payload_room = packet.payload_room - size])
    ELSE None

deparse_header(packet) == [packet EXCEPT !.layer = "UdpHeader"]

(***************************************************************************)
(* String::from_utf8: Some(bytes) iff the bytes are well-formed UTF-8.     *)
(***************************************************************************)
IsCont(b) == b \in 128..191

RECURSIVE utf8_valid_from(_, _)
utf8_valid_from(v, i) ==
    IF i > Len(v) THEN TRUE
    ELSE LET b == v[i]
             has(n) == i + n <= Len(v)
         IN  IF b < 128 THEN utf8_valid_from(v, i + 1)
             ELSE IF b \in 194..223
                  THEN has(1) /\ IsCont(v[i+1]) /\ utf8_valid_from(v, i + 2)
             ELSE IF b = 224
                  THEN has(2) /\ v[i+1] \in 160..191 /\ IsCont(v[i+2])
                       /\ utf8_valid_from(v, i + 3)
             ELSE IF b \in (225..236) \cup (238..239)
                  THEN has(2) /\ IsCont(v[i+1]) /\ IsCont(v[i+2])
                       /\ utf8_valid_from(v, i + 3)
             ELSE IF b = 237
                  THEN has(2) /\ v[i+1] \in 128..159 /\ IsCont(v[i+2])
                       /\ utf8_valid_from(v, i + 3)
             ELSE IF b = 240
                  THEN has(3) /\ v[i+1] \in 144..191 /\ IsCont(v[i+2])
                       /\ IsCont(v[i+3]) /\ utf8_valid_from(v, i + 4)
             ELSE IF b \in 241..243
                  THEN has(3) /\ IsCont(v[i+1]) /\ IsCont(v[i+2])
                       /\ IsCont(v[i+3]) /\ utf8_valid_from(v, i + 4)
             ELSE IF b = 244
                  THEN has(3) /\ v[i+1] \in 128..143 /\ IsCont(v[i+2])
                       /\ IsCont(v[i+3]) /\ utf8_valid_from(v, i + 4)
             ELSE FALSE

String_from_utf8(v) == IF utf8_valid_from(v, 1) THEN Some(v) ELSE None

(***************************************************************************)
(* Inputs: the requests and the pre-allocated response buffers handed to   *)
(* dispatch.                                                               *)
(***************************************************************************)
OpCodes == {"SandstormGetRpc", "SandstormInvokeRpc", "InvalidOperation"}

TenantIds == 0..MaxTenant
TableIds == 0..MaxTable

\* the provisioned key with its last byte changed
NearKey == [Fill(KeyLen, KeyByte) EXCEPT ![KeyLen] = KeyByte + 1]

Payloads ==
    {Fill(n, KeyByte) : n \in {0, 1, KeyLen - 1} \cup (KeyLen..(KeyLen + MaxPad))}
    \cup {NearKey, Fill(KeyLen, ValueByte), Fill(ValueLen, ValueByte)}
    \cup {ExtNameGet, ExtNameGet \o <<7, 7>>, <<103, 101>>,
          <<255>>, <<195, 169>>, <<195>>, <<103, 237, 160, 128>>}

KeyLengths == {0, 1, KeyLen - 1, KeyLen, KeyLen + 1, U16Max}
NameLengths == {0, 1, 2, 3, 4, U16Max}
ArgsLengths == {0, 2, U16Max}

RequestHeaders ==
    {[opcode |-> "SandstormGetRpc", tenant |-> t, table_id |-> tb,
      key_length |-> kl, name_length |-> 0, args_length |-> 0] :
        t \in TenantIds, tb \in TableIds, kl \in KeyLengths}
    \cup
    {[opcode |-> "SandstormInvokeRpc", tenant |-> t, table_id |-> 0,
      key_length |-> 0, name_length |-> nl, args_length |-> al] :
        t \in TenantIds, nl \in NameLengths, al \in ArgsLengths}
    \cup
    {[opcode |-> "InvalidOperation", tenant |-> t, table_id |-> 0,
      key_length |-> 0, name_length |-> 0, args_length |-> 0] :
        t \in TenantIds}

Requests ==
    {[layer |-> "UdpHeader", hdr |-> h, payload |-> p] :
        h \in RequestHeaders, p \in Payloads}

PayloadRooms == {0} \cup ((ValueLen - 1)..(ValueLen + MaxSlack))

Responses ==
    {[layer |-> "UdpHeader", header |-> NoHeader, payload |-> <<>>,
      header_room |-> hr, payload_room |-> pr] :
        hr \in BOOLEAN, pr \in PayloadRooms}

ExtOutcomes == {"done", "failed", "missing"}

\* dispatch holds no packet before it is called and after it has returned
NoRequest ==
    [layer |-> "none",
     hdr |-> [opcode |-> "none", tenant |-> 0, table_id |-> 0,
              key_length |-> 0, name_length |-> 0, args_length |-> 0],
     payload |-> <<>>]

NoRespons ==
    [layer |-> "none", header |-> NoHeader, payload |-> <<>>,
     header_room |-> FALSE, payload_room |-> 0]

\* The inputs whose first completed dispatch is remembered, to compare a
\* later dispatch of the same input with it: a Get that hits, a Get from an
\* unknown tenant, an Invoke of "get" by tenant 1 and an unrecognized opcode,
\* each with a response buffer that holds the header and the value.
ProbeRequests ==
    {rq \in Requests :
        \/ /\ rq.hdr.opcode = "SandstormGetRpc"
           /\ rq.hdr.tenant \in {0, 1} /\ rq.hdr.table_id = 1
           /\ rq.hdr.key_length = KeyLen
           /\ rq.payload = Fill(KeyLen, KeyByte)
        \/ /\ rq.hdr.opcode = "SandstormInvokeRpc"
           /\ rq.hdr.tenant = 1
           /\ rq.hdr.name_length = 3 /\ rq.hdr.args_length = 0
           /\ rq.payload = ExtNameGet
        \/ /\ rq.hdr.opcode = "InvalidOperation"
           /\ rq.hdr.tenant = 1
           /\ rq.payload = <<>>}

ProbeResponses ==
    {rs \in Responses : rs.header_room /\ rs.payload_room = ValueLen}

NoMemo ==
    [set |-> FALSE, rq |-> NoRequest, rs |-> NoRespons, out |-> NoRespons,
     end |-> "none"]

(***************************************************************************)
(* State.                                                                  *)
(***************************************************************************)
VARIABLES
    users,        \* Master.users: tenant id -> User (id, tables)
    extensions,   \* Master.extensions: the loaded (tenant, name) pairs
    pc,           \* position of the current dispatch call
    request,      \* the request packet of the current dispatch call
    respons,      \* the response packet of the current dispatch call
    request0,     \* the request packet as dispatch received it
    respons0,     \* the response packet as dispatch received it
    calls,        \* ExtensionManager::call invocations made for this request
    ext_outcome,  \* what the called extension did, invisible to invoke
    log,          \* the steps the handler of this request has executed
    memo          \* history: the first completed dispatch of a probe input

vars == <<users, extensions, pc, request, respons, request0, respons0,
          calls, ext_outcome, log, memo>>

\* one executed step of a handler: a slice of the request payload, a lookup
\* in the registry, an assignment to the local status, an append
Event(op, arg) == [op |-> op, arg |-> arg]

Init ==
    /\ users = Master_new.users
    /\ extensions = Master_new.extensions
    /\ pc = "Idle"
    /\ request = NoRequest
    /\ respons = NoRespons
    /\ request0 = NoRequest
    /\ respons0 = NoRespons
    /\ calls = <<>>
    /\ ext_outcome = "none"
    /\ log = <<>>
    /\ memo = NoMemo

(***************************************************************************)
(* Master::get                                                             *)
(***************************************************************************)
\* the bounds check fails: status only, no payload
get_malformed_mut(resp) ==
    [resp EXCEPT !.header.status = "StatusMalformedRequest",
                 !.payload = resp.payload \o <<0>>]

get_malformed(resp) ==
    [resp EXCEPT !.header.status = "StatusMalformedRequest"]

\* match outcome { Some(()) => .. }
get_completed_mut(status, resp) ==
    [resp EXCEPT !.header.status = status]

get_completed(status, resp) ==
    \* a packet payload is far shorter than 2^32 bytes, so the cast to u32
    \* keeps the length
    LET val_len == Len(get_payload(resp))
    IN  [resp EXCEPT !.header.value_length = val_len,
                     !.header.status = status]

\* match outcome { None => .. }
get_failed_mut(status, resp) ==
    [resp EXCEPT !.header.status = status,
                 !.payload = resp.payload \o <<0>>]

get_failed(status, resp) ==
    [resp EXCEPT !.header.status = status]

\* the bounds check on key_length
get_too_short_mut(req, key_length) ==
    Len(get_payload(req)) + 1 < key_length

get_too_short(req, key_length) ==
    Len(get_payload(req)) < key_length

\* self.users.get(&tenant_id)
get_user_mut(tenant_id) ==
    IF tenant_id \in DOMAIN users THEN Some(users[tenant_id])
    ELSE IF DOMAIN users # {}
         THEN Some(users[CHOOSE t \in DOMAIN users : TRUE])
         ELSE None

get_user(tenant_id) == HashMap_get(users, tenant_id)

\* The result carries the response packet as get leaves it and the steps
\* get executed.
get(req_hdr, req, resp) ==
    LET tenant_id  == req_hdr.tenant
        table_id   == req_hdr.table_id
        key_length == req_hdr.key_length
    IN  IF get_too_short(req, key_length)
        THEN [resp |-> get_malformed(resp), log |-> <<>>]
        ELSE
          LET key == split_at(get_payload(req), key_length)[1]
              status0 == "StatusOk"
              l0 == <<Event("split_at",
                            <<key_length, Len(get_payload(req))>>),
                      Event("users.get", tenant_id)>>
              \* self.users.get(&tenant_id)
              o0 == get_user(tenant_id)
              \* .map_or_else(|| { status = TenantDoesNotExist; None },
              \*              |user| user.tables.get(&table_id))
              o1 == IF o0.some THEN HashMap_get(o0.val.tables, table_id)
                               ELSE None
              status1 == IF o0.some THEN status0
                                    ELSE "StatusTenantDoesNotExist"
              l1 == IF o0.some
                    THEN Append(l0, Event("tables.get", table_id))
                    ELSE Append(l0, Event("status", status1))
              \* .map_or_else(|| { status = TableDoesNotExist; None },
              \*              |table| table.get(key))
              o2 == IF o1.some THEN Table_get(o1.val, key) ELSE None
              status2 == IF o1.some THEN status1
                                    ELSE "StatusTableDoesNotExist"
              l2 == IF o1.some
                    THEN Append(l1, Event("table.get", key))
                    ELSE Append(l1, Event("status", status2))
              \* .map_or_else(|| { status = ObjectDoesNotExist; None },
              \*              |value| respons.add_to_payload_tail(..).ok())
              o3 == IF o2.some
                    THEN add_to_payload_tail(resp, Len(o2.val), o2.val)
                    ELSE None
              status3 == IF o2.some THEN status2
                                    ELSE "StatusObjectDoesNotExist"
              l3 == IF o2.some
                    THEN Append(l2, Event("append", Len(o2.val)))
                    ELSE Append(l2, Event("status", status3))
              resp3 == IF o3.some THEN o3.val ELSE resp
              \* .map_or_else(|| { status = InternalError; None },
              \*              |_| Some(()))
              outcome == IF o3.some THEN Some(<<>>) ELSE None
              status4 == IF o3.some THEN status3 ELSE "StatusInternalError"
              l4 == IF o3.some THEN l3
                    ELSE Append(l3, Event("status", status4))
          IN  IF outcome.some
              THEN [resp |-> get_completed(status4, resp3), log |-> l4]
              ELSE [resp |-> get_failed(status4, resp3), log |-> l4]

(***************************************************************************)
(* Master::invoke, up to the extension call.  The result says how the      *)
(* handler goes on: "return" (status written, handler returns), "panic"    *)
(* (the expect on from_utf8 fails) or "call" (the extension is called).    *)
(***************************************************************************)
\* the bounds check; the sum is taken in usize, which two header fields
\* cannot overflow
invoke_too_short_mut(req, name_length, args_length) ==
    Len(get_payload(req)) < name_length

invoke_too_short_args(req, name_length, args_length) ==
    Len(get_payload(req)) < args_length

invoke_too_short(req, name_length, args_length) ==
    Len(get_payload(req)) < name_length + args_length

\* match self.users.get(&tenant_id)
invoke_tenant_exists_mut(tenant_id) == TRUE

invoke_tenant_exists(tenant_id) == HashMap_get(users, tenant_id).some

\* the bytes of the extension's name
invoke_raw_name_mut(req, name_length) == get_payload(req)

invoke_raw_name(req, name_length) ==
    split_at(get_payload(req), name_length)[1]

invoke(req_hdr, req, resp) ==
    LET tenant_id   == req_hdr.tenant
        name_length == req_hdr.name_length
        args_length == req_hdr.args_length
    IN  IF invoke_too_short(req, name_length, args_length)
        THEN [next |-> "return", tenant_id |-> tenant_id, ext_name |-> <<>>,
              resp |-> [resp EXCEPT !.header.status = "StatusMalformedRequest"],
              log |-> <<>>]
        ELSE
          LET raw_name == invoke_raw_name(req, name_length)
              decoded  == String_from_utf8(raw_name)
              l0 == <<Event("split_at",
                            <<name_length, Len(get_payload(req))>>)>>
              l1 == Append(l0, Event("users.get", tenant_id))
          IN  IF ~decoded.some
              THEN [next |-> "panic", tenant_id |-> tenant_id,
                    ext_name |-> <<>>, resp |-> resp, log |-> l0]
              ELSE IF ~invoke_tenant_exists(tenant_id)
              THEN [next |-> "return", tenant_id |-> tenant_id,
                    ext_name |-> decoded.val,
                    resp |-> [resp EXCEPT !.header.status =
                                              "StatusTenantDoesNotExist"],
                    log |-> l1]
              ELSE [next |-> "call", tenant_id |-> tenant_id,
                    ext_name |-> decoded.val, resp |-> resp, log |-> l1]

\* after self.extensions.call returns
invoke_finish(resp) == [resp EXCEPT !.header.status = "StatusOk"]

(***************************************************************************)
(* Service::dispatch                                                       *)
(***************************************************************************)
\* The caller hands dispatch a request parsed up to its UDP header and a
\* pre-allocated response.
Receive ==
    /\ pc = "Idle"
    /\ \E rq \in Requests, rs \in Responses :
          /\ request' = rq
          /\ respons' = rs
          /\ request0' = rq
          /\ respons0' = rs
    /\ pc' = "Received"
    /\ calls' = <<>>
    /\ ext_outcome' = "none"
    /\ log' = <<>>
    /\ UNCHANGED <<users, extensions, memo>>

dispatch_Get_parse ==
    /\ pc = "Received"
    /\ parse_rpc_opcode(request) = "SandstormGetRpc"
    /\ request' = parse_header(request, "GetRequest")
    /\ LET pushed == push_header(respons, GetResponse_new)
       IN  IF pushed.some
           THEN respons' = pushed.val /\ pc' = "Parsed"
           ELSE respons' = respons /\ pc' = "Panicked"
    /\ UNCHANGED <<users, extensions, request0, respons0, calls, ext_outcome,
                   log, memo>>

dispatch_Get_handle_mut ==
    /\ pc = "Parsed"
    /\ request.layer = "GetRequest"
    /\ LET r == get(request.hdr, request, respons)
       IN  respons' = r.resp /\ log' = r.log
    /\ users' = IF request.hdr.tenant \in DOMAIN users THEN users
                ELSE HashMap_insert(users, request.hdr.tenant,
                                    create_table(User_new(request.hdr.tenant),
                                                 request.hdr.table_id))
    /\ pc' = "Handled"
    /\ UNCHANGED <<extensions, request, request0, respons0, calls,
                   ext_outcome, memo>>

dispatch_Get_handle ==
    /\ pc = "Parsed"
    /\ request.layer = "GetRequest"
    /\ LET r == get(request.hdr, request, respons)
       IN  respons' = r.resp /\ log' = r.log
    /\ pc' = "Handled"
    /\ UNCHANGED <<users, extensions, request, request0, respons0, calls,
                   ext_outcome, memo>>

dispatch_Invoke_parse ==
    /\ pc = "Received"
    /\ parse_rpc_opcode(request) = "SandstormInvokeRpc"
    /\ request' = parse_header(request, "InvokeRequest")
    /\ LET pushed == push_header(respons, InvokeResponse_new)
       IN  IF pushed.some
           THEN respons' = pushed.val /\ pc' = "Parsed"
           ELSE respons' = respons /\ pc' = "Panicked"
    /\ UNCHANGED <<users, extensions, request0, respons0, calls, ext_outcome,
                   log, memo>>

\* invoke up to the point where it returns early, panics or calls
dispatch_Invoke_handle ==
    /\ pc = "Parsed"
    /\ request.layer = "InvokeRequest"
    /\ LET r == invoke(request.hdr, request, respons)
       IN  /\ respons' = r.resp
           /\ log' = r.log
           /\ pc' = CASE r.next = "return" -> "Handled"
                      [] r.next = "panic"  -> "Panicked"
                      [] r.next = "call"   -> "InCall"
           /\ calls' = IF r.next = "call"
                       THEN Append(calls, <<r.tenant_id, r.ext_name>>)
                       ELSE calls
    /\ UNCHANGED <<users, extensions, request, request0, respons0,
                   ext_outcome, memo>>

\* the extension returns; nothing of what it did reaches invoke
dispatch_Invoke_return ==
    /\ pc = "InCall"
    /\ \E o \in ExtOutcomes :
          /\ (o = "missing") <=> (calls[Len(calls)] \notin extensions)
          /\ ext_outcome' = o
    /\ respons' = invoke_finish(respons)
    /\ pc' = "Handled"
    /\ UNCHANGED <<users, extensions, request, request0, respons0, calls,
                   log, memo>>

dispatch_deparse ==
    /\ pc = "Handled"
    /\ request' = deparse_header(request)
    /\ respons' = deparse_header(respons)
    /\ pc' = "Deparsed"
    /\ UNCHANGED <<users, extensions, request0, respons0, calls, ext_outcome,
                   log, memo>>

dispatch_InvalidOperation_mut ==
    /\ pc = "Received"
    /\ parse_rpc_opcode(request) = "InvalidOperation"
    /\ pc' = "Returned"
    /\ respons' = [respons EXCEPT !.header = GetResponse_new]
    /\ UNCHANGED <<users, extensions, request, request0, respons0,
                   calls, ext_outcome, log, memo>>

dispatch_InvalidOperation ==
    /\ pc = "Received"
    /\ parse_rpc_opcode(request) = "InvalidOperation"
    /\ pc' = "Returned"
    /\ UNCHANGED <<users, extensions, request, respons, request0, respons0,
                   calls, ext_outcome, log, memo>>

\* return (request, respons): both packets move back to the caller
dispatch_return ==
    /\ pc \in {"Deparsed", "Returned"}
    /\ pc' = "Idle"
    /\ request' = NoRequest
    /\ respons' = NoRespons
    /\ request0' = NoRequest
    /\ respons0' = NoRespons
    /\ calls' = <<>>
    /\ ext_outcome' = "none"
    /\ log' = <<>>
    /\ memo' = IF ~memo.set /\ request0 \in ProbeRequests
                            /\ respons0 \in ProbeResponses
               THEN [set |-> TRUE, rq |-> request0, rs |-> respons0,
                     out |-> respons, end |-> pc]
               ELSE memo
    /\ UNCHANGED <<users, extensions>>

Next ==
    \/ Receive
    \/ dispatch_Get_parse
    \/ dispatch_Get_handle
    \/ dispatch_Invoke_parse
    \/ dispatch_Invoke_handle
    \/ dispatch_Invoke_return
    \/ dispatch_deparse
    \/ dispatch_InvalidOperation
    \/ dispatch_return

Spec == Init /\ [][Next]_vars

(***************************************************************************)
(* Vocabulary of the properties.                                           *)
(***************************************************************************)
Statuses == {"StatusOk", "StatusMalformedRequest", "StatusTenantDoesNotExist",
             "StatusTableDoesNotExist", "StatusObjectDoesNotExist",
             "StatusInternalError"}

\* dispatch has returned from the Get or Invoke arm
Returned == pc = "Deparsed"

IsGet == request.hdr.opcode = "SandstormGetRpc"
IsInvoke == request.hdr.opcode = "SandstormInvokeRpc"
IsInvalid == request.hdr.opcode = "InvalidOperation"

ReqTenant == request.hdr.tenant
ReqTable == request.hdr.table_id
ReqKey == SubSeq(request.payload, 1, request.hdr.key_length)
ReqName == SubSeq(request.payload, 1, request.hdr.name_length)

ValidKeyLength == Len(request.payload) >= request.hdr.key_length
ValidInvokeLengths ==
    Len(request.payload) >= request.hdr.name_length + request.hdr.args_length

TenantKnown == ReqTenant \in DOMAIN users
TableKnown == TenantKnown /\ ReqTable \in DOMAIN users[ReqTenant].tables
KeyKnown == TableKnown /\ ReqKey \in DOMAIN users[ReqTenant].tables[ReqTable]
StoredValue == users[ReqTenant].tables[ReqTable][ReqKey]

RespStatus == respons.header.status

(***************************************************************************)
(* C1: a Get with a valid key length whose tenant is not in the registry   *)
(* leaves status TenantDoesNotExist in the response when dispatch returns. *)
(***************************************************************************)
C1_UnknownTenantStatus ==
    (Returned /\ IsGet /\ ValidKeyLength /\ ~TenantKnown)
        => RespStatus = "StatusTenantDoesNotExist"

(***************************************************************************)
(* C2: a Get with a valid key length whose tenant exists but whose table   *)
(* id is not among the tenant's tables leaves status TableDoesNotExist,    *)
(* whatever the key bytes are.                                             *)
(***************************************************************************)
C2_UnknownTableStatus ==
    (Returned /\ IsGet /\ ValidKeyLength /\ TenantKnown /\ ~TableKnown)
        => RespStatus = "StatusTableDoesNotExist"

(***************************************************************************)
(* C3: a Get with a valid key length whose tenant and table exist but      *)
(* whose key is not in the table leaves status ObjectDoesNotExist.         *)
(***************************************************************************)
C3_UnknownKeyStatus ==
    (Returned /\ IsGet /\ ValidKeyLength /\ TableKnown /\ ~KeyKnown)
        => RespStatus = "StatusObjectDoesNotExist"

(***************************************************************************)
(* C4: a Get that names an existing entry and whose response buffer can    *)
(* hold the value returns status Ok, a payload equal to the stored value   *)
(* and a value_length equal to the payload length.                         *)
(***************************************************************************)
GetHit ==
    /\ IsGet /\ ValidKeyLength /\ KeyKnown
    /\ Len(StoredValue) <= respons0.payload_room

C4_GetHit ==
    (Returned /\ GetHit)
        => /\ RespStatus = "StatusOk"
           /\ respons.payload = StoredValue
           /\ respons.header.value_length = Len(respons.payload)

C4_Witness ==
    /\ Returned /\ GetHit
    /\ RespStatus = "StatusOk"
    /\ Len(respons.payload) = ValueLen
    /\ Len(request.payload) > request.hdr.key_length

(***************************************************************************)
(* C5: a Get whose payload is shorter than key_length returns status       *)
(* MalformedRequest and an empty response payload.                         *)
(***************************************************************************)
C5_GetMalformed ==
    (Returned /\ IsGet /\ ~ValidKeyLength)
        => /\ RespStatus = "StatusMalformedRequest"
           /\ Len(respons.payload) = 0

C5_Witness ==
    /\ Returned /\ IsGet /\ ~ValidKeyLength
    /\ Len(request.payload) = KeyLen /\ request.hdr.key_length = KeyLen + 1
    /\ ReqTenant = 1 /\ ReqTable = 1
    /\ RespStatus = "StatusMalformedRequest"

(***************************************************************************)
(* C6 as stated: every Invoke from a tenant that is not in the registry    *)
(* returns status TenantDoesNotExist and makes no extension call.          *)
(***************************************************************************)
C6_Original ==
    (Returned /\ IsInvoke /\ ~TenantKnown)
        => /\ RespStatus = "StatusTenantDoesNotExist"
           /\ calls = <<>>

(***************************************************************************)
(* C6 amended: an Invoke from a tenant that is not in the registry never   *)
(* reaches the extension call, and when its payload is at least            *)
(* name_length + args_length bytes long the status dispatch returns is     *)
(* TenantDoesNotExist.                                                     *)
(***************************************************************************)
C6_UnknownTenantInvoke ==
    (IsInvoke /\ ~TenantKnown)
        => /\ calls = <<>>
           /\ pc # "InCall"
           /\ (Returned /\ ValidInvokeLengths)
                  => RespStatus = "StatusTenantDoesNotExist"

C6_Witness ==
    /\ Returned /\ IsInvoke /\ ~TenantKnown /\ ValidInvokeLengths
    /\ ReqName = ExtNameGet
    /\ RespStatus = "StatusTenantDoesNotExist"
    /\ calls = <<>>

(***************************************************************************)
(* C7: an Invoke whose payload is shorter than name_length + args_length   *)
(* returns status MalformedRequest and makes no extension call.            *)
(***************************************************************************)
C7_InvokeMalformed ==
    (IsInvoke /\ ~ValidInvokeLengths)
        => /\ calls = <<>>
           /\ pc # "InCall"
           /\ Returned => RespStatus = "StatusMalformedRequest"

C7_Witness ==
    /\ Returned /\ IsInvoke /\ ~ValidInvokeLengths
    /\ TenantKnown
    /\ Len(request.payload) >= request.hdr.name_length
    /\ ReqName = ExtNameGet
    /\ RespStatus = "StatusMalformedRequest"

(***************************************************************************)
(* C8: for an Invoke from an existing tenant whose lengths are valid and   *)
(* whose name bytes decode, the extension is called exactly once, with     *)
(* the request's tenant id and the name held in the first name_length      *)
(* payload bytes, and once the call has returned the status is Ok          *)
(* whatever the extension did.                                             *)
(***************************************************************************)
WellFormedInvoke ==
    /\ IsInvoke /\ ValidInvokeLengths /\ TenantKnown
    /\ String_from_utf8(ReqName).some

C8_InvokeOk ==
    (WellFormedInvoke /\ pc \in {"InCall", "Handled", "Deparsed"})
        => /\ calls = << <<ReqTenant, ReqName>> >>
           /\ (pc # "InCall") => RespStatus = "StatusOk"

C8_Witness ==
    /\ Returned /\ WellFormedInvoke
    /\ ReqTenant = 1 /\ ReqName = ExtNameGet
    /\ Len(request.payload) > request.hdr.name_length
    /\ ext_outcome = "failed"
    /\ RespStatus = "StatusOk"

(***************************************************************************)
(* C9: on an unrecognized opcode dispatch returns both buffers exactly as  *)
(* it received them: no response header, no status, no payload, cursors    *)
(* at the transport-header boundary.                                       *)
(***************************************************************************)
C9_InvalidOpcodeUntouched ==
    (pc = "Returned")
        => /\ request = request0
           /\ respons = respons0
           /\ ~respons.header.present
           /\ respons.payload = <<>>
           /\ request.layer = "UdpHeader" /\ respons.layer = "UdpHeader"

C9_Witness ==
    /\ pc = "Returned" /\ IsInvalid
    /\ respons.header_room
    /\ Len(request.payload) > 0

(***************************************************************************)
(* C10: every dispatch call ends in Deparsed: it returns both buffers at   *)
(* the transport-header boundary with a response that carries a status    *)
(* code, on every path.                                                    *)
(***************************************************************************)
C10_EndsDeparsed ==
    (pc \in {"Deparsed", "Returned", "Panicked"})
        => /\ pc = "Deparsed"
           /\ request.layer = "UdpHeader" /\ respons.layer = "UdpHeader"
           /\ respons.header.present
           /\ RespStatus \in Statuses

(***************************************************************************)
(* Error categories of a request.                                          *)
(***************************************************************************)
\* (a) a length field exceeds the payload
ProtocolError ==
    \/ IsGet /\ ~ValidKeyLength
    \/ IsInvoke /\ ~ValidInvokeLengths

\* (b) valid lengths, but the tenant, table or key does not exist
LookupMiss ==
    \/ IsGet /\ ValidKeyLength /\ ~KeyKnown
    \/ IsInvoke /\ ValidInvokeLengths /\ ~TenantKnown

\* (c) the response buffer cannot hold the header or the value
ResourceError ==
    /\ IsGet \/ IsInvoke
    /\ \/ ~respons0.header_room
       \/ /\ IsGet /\ ValidKeyLength /\ KeyKnown
          /\ Len(StoredValue) > respons0.payload_room

\* (d) the extension's name does not decode
NameDecodeError ==
    /\ IsInvoke /\ ValidInvokeLengths
    /\ ~String_from_utf8(ReqName).some

(***************************************************************************)
(* C11: protocol errors, lookup misses and resource errors never make      *)
(* dispatch abort; each one is recovered inside dispatch and comes back    *)
(* as a status code in the returned response header.                       *)
(***************************************************************************)
C11_ErrorsRecovered ==
    ((ProtocolError \/ LookupMiss \/ ResourceError) /\ ~NameDecodeError)
        => /\ pc # "Panicked"
           /\ Returned => /\ respons.header.present
                          /\ RespStatus \in Statuses \ {"StatusOk"}

(***************************************************************************)
(* C12: after a Get or Invoke dispatch the response payload is non-empty   *)
(* only if the status is Ok; every response with another status has an     *)
(* empty payload.                                                          *)
(***************************************************************************)
C12_PayloadOnlyOnOk ==
    (Returned /\ (IsGet \/ IsInvoke) /\ RespStatus # "StatusOk")
        => respons.payload = <<>>

C12_Witness ==
    /\ Returned /\ IsGet /\ ValidKeyLength /\ KeyKnown
    /\ respons0.payload_room = ValueLen - 1
    /\ RespStatus = "StatusInternalError"
    /\ respons.payload = <<>>

(***************************************************************************)
(* C13: in every Get response dispatch returns, on success and on every    *)
(* failure path, value_length equals the number of bytes in the response   *)
(* payload.                                                                *)
(***************************************************************************)
C13_ValueLengthIsPayloadLength ==
    (Returned /\ IsGet)
        => respons.header.value_length = Len(respons.payload)

C13_Witness ==
    /\ Returned /\ IsGet /\ ValidKeyLength /\ KeyKnown
    /\ RespStatus = "StatusOk"
    /\ respons.header.value_length = ValueLen
    /\ Len(respons.payload) = ValueLen

(***************************************************************************)
(* C14 as stated: after Master::new a Get for tenant 1, table 1 and the    *)
(* key of 30 bytes of value 1 returns status Ok, value_length 100 and a    *)
(* payload of 100 bytes of value 91, after any earlier dispatches.         *)
(***************************************************************************)
ProvisionedKey == Fill(KeyLen, KeyByte)
ProvisionedValue == Fill(ValueLen, ValueByte)

GetProvisioned ==
    /\ IsGet /\ ReqTenant = 1 /\ ReqTable = 1
    /\ request.hdr.key_length = KeyLen
    /\ ValidKeyLength
    /\ ReqKey = ProvisionedKey

ReturnsProvisioned ==
    /\ RespStatus = "StatusOk"
    /\ respons.header.value_length = ValueLen
    /\ respons.payload = ProvisionedValue

C14_Original ==
    (Returned /\ GetProvisioned) => ReturnsProvisioned

(***************************************************************************)
(* C14 amended: the same Get returns status Ok, value_length 100 and the   *)
(* 100 bytes of value 91 whenever the response buffer has room for the     *)
(* 100-byte value, after any earlier dispatches.                           *)
(***************************************************************************)
C14_ProvisionedGet ==
    (Returned /\ GetProvisioned /\ respons0.payload_room >= ValueLen)
        => ReturnsProvisioned

\* reached after an earlier dispatch has completed
C14_Witness ==
    /\ Returned /\ GetProvisioned /\ respons0.payload_room >= ValueLen
    /\ memo.set /\ memo.rq.hdr.opcode = "SandstormInvokeRpc"
    /\ ReturnsProvisioned

(***************************************************************************)
(* C15: within one Get handling each failure short-circuits the remaining  *)
(* steps: the status is assigned exactly once, by the first failing step   *)
(* (tenant, table, key or append), and that is the status in the response. *)
(***************************************************************************)
IsStatusEvent(e) == e.op = "status"
StatusWrites == SelectSeq(log, IsStatusEvent)

AppendFails == KeyKnown /\ Len(StoredValue) > respons0.payload_room

FirstFailureStatus ==
    IF ~TenantKnown THEN "StatusTenantDoesNotExist"
    ELSE IF ~TableKnown THEN "StatusTableDoesNotExist"
    ELSE IF ~KeyKnown THEN "StatusObjectDoesNotExist"
    ELSE IF AppendFails THEN "StatusInternalError"
    ELSE "StatusOk"

C15_FirstFailureWins ==
    (pc \in {"Handled", "Deparsed"} /\ IsGet /\ ValidKeyLength)
        => /\ RespStatus = FirstFailureStatus
           /\ Len(StatusWrites) = IF FirstFailureStatus = "StatusOk"
                                  THEN 0 ELSE 1

(***************************************************************************)
(* C16: a Get that finds the key but whose value cannot be appended to     *)
(* the response payload returns InternalError, and no Get that fails on    *)
(* a missing tenant, table or key returns InternalError.                   *)
(***************************************************************************)
C16_InternalErrorMeansAppendFailed ==
    (Returned /\ IsGet /\ ValidKeyLength)
        => /\ AppendFails => RespStatus = "StatusInternalError"
           /\ ~KeyKnown => RespStatus # "StatusInternalError"

(***************************************************************************)
(* C17: the bounds check on the length fields precedes every lookup: a     *)
(* Get with payload length < key_length, or an Invoke with payload length  *)
(* < name_length + args_length, gets MalformedRequest even when its        *)
(* tenant, table or key does not exist, and the registry is not consulted. *)
(***************************************************************************)
IsLookupEvent(e) == e.op \in {"users.get", "tables.get", "table.get"}
Lookups == SelectSeq(log, IsLookupEvent)

C17_CheckBeforeLookup ==
    ProtocolError
        => /\ Lookups = <<>>
           /\ pc \in {"Handled", "Deparsed"}
                  => RespStatus = "StatusMalformedRequest"

C17_Witness ==
    /\ Returned /\ IsGet /\ ~ValidKeyLength /\ ~TenantKnown
    /\ Len(request.payload) = KeyLen - 1
    /\ request.hdr.key_length = KeyLen
    /\ RespStatus = "StatusMalformedRequest"
    /\ Lookups = <<>>

(***************************************************************************)
(* C18: Get and Invoke never slice the request payload at an index larger  *)
(* than its length: every split_at comes after the length check, for all   *)
(* values of key_length, name_length and args_length.                      *)
(***************************************************************************)
C18_SplitWithinPayload ==
    \A i \in 1..Len(log) :
        log[i].op = "split_at" => log[i].arg[1] <= log[i].arg[2]

C18_Witness ==
    /\ pc = "Handled" /\ IsInvoke
    /\ request.hdr.name_length = 3 /\ request.hdr.args_length = 2
    /\ Len(request.payload) = 5
    /\ Len(log) > 0 /\ log[1].op = "split_at" /\ log[1].arg = <<3, 5>>

(***************************************************************************)
(* C19: dispatch never changes the tenant registry: the tenants, their     *)
(* tables and the tables' contents stay what Master::new created, so a     *)
(* request dispatched a second time gets the same status and payload.      *)
(***************************************************************************)
SameInputAsMemo ==
    /\ memo.set
    /\ pc \in {"Deparsed", "Returned"}
    /\ request0 = memo.rq /\ respons0 = memo.rs

C19_RegistryUnchanged ==
    /\ users = Master_new.users
    /\ extensions = Master_new.extensions
    /\ SameInputAsMemo
          => /\ pc = memo.end
             /\ respons.header = memo.out.header
             /\ respons.payload = memo.out.payload

C19_Witness ==
    /\ SameInputAsMemo /\ IsGet /\ KeyKnown
    /\ RespStatus = "StatusOk"
    /\ respons.payload = memo.out.payload
    /\ users = Master_new.users

(***************************************************************************)
(* C20: the value a Get writes into the response comes from the table of   *)
(* the request's own tenant id and table id; a Get naming a tenant never   *)
(* returns a value stored only in another tenant's table, even when that   *)
(* tenant has a table with the same table id and the same key.             *)
(***************************************************************************)
\* a tenant other than the request's holds the request's table id and key
OtherTenantHasKey ==
    \E t \in DOMAIN users \ {ReqTenant} :
        /\ ReqTable \in DOMAIN users[t].tables
        /\ ReqKey \in DOMAIN users[t].tables[ReqTable]

C20_TenantIsolation ==
    (pc \in {"Handled", "Deparsed"} /\ IsGet /\ respons.payload # <<>>)
        => /\ ValidKeyLength /\ KeyKnown
           /\ respons.payload = StoredValue

C20_Witness ==
    /\ Returned /\ IsGet /\ ValidKeyLength
    /\ ~TenantKnown /\ OtherTenantHasKey
    /\ respons0.payload_room >= ValueLen
    /\ respons.payload = <<>>
    /\ RespStatus # "StatusOk"

====
